---- MODULE Spec2Model ----
(***************************************************************************)
(* A model of src/comfyu/handler.py: the process start-up (start_comfyui,  *)
(* wait_for_comfyui), and handler(job) with the functions it calls         *)
(* (upload_image, the LoadImage rewrite, queue_prompt, wait_for_result,    *)
(* collect_outputs).  The ComfyUI service, its filesystem and the clock    *)
(* are the environment: every answer they can give is a nondeterministic   *)
(* choice.                                                                 *)
(*                                                                         *)
(* Time is counted in ticks of POLL_INTERVAL (0.5 s).  A blocking HTTP     *)
(* request lets time pass (Tick) until the service answers; time.sleep     *)
(* advances the clock by its argument; everything else takes no time.      *)
(***************************************************************************)
EXTENDS Integers, Sequences, FiniteSets, TLC

VARIABLES
    mainPc,     \* position of the __main__ block
    probeOk,    \* a readiness probe has answered 200
    pc,         \* position of handler(job)
    now,        \* time.time(), relative to the start of the current phase
    start,      \* the local `start` of the running wait loop
    workflow,   \* job["input"]["workflow"], mutated in place by the rewrite
    rest,       \* the images the loop of handler has not reached yet
    cur,        \* the locals filename and prompt_id, the status of POST /prompt,
                \* and r, the history response lines 79-82 are looking at
    history,    \* the entry wait_for_result returned
    k,          \* collect_outputs: index of the reference being processed
    outputs,    \* collect_outputs: the list built so far
    seen,       \* os.path.exists answers given to collect_outputs so far
    result,     \* what handler returned (or that it raised)
    calls,      \* the requests the running job has issued, by endpoint
    sent,       \* the request that is waiting for its answer: the body of a
                \* POST, and the time it was sent at
    rw,         \* the rewrite applied on its own: input, arguments, output
    bound,      \* for each node, the uploaded name line 138 last gave it in
                \* the running job (None: not rewritten in this job)
    up          \* upload_image applied on its own: the arguments, and what
                \* it posts for the bare and for the prefixed string

vars == << mainPc, probeOk, pc, now, start, workflow, rest, cur, history, k,
           outputs, seen, result, calls, sent, rw, bound, up >>

----------------------------------------------------------------------------
(* Bounds of the model *)

\* timeout argument of wait_for_result, in ticks (the default is TIMEOUT = 600 s)
JobTimeout == 3
\* timeout argument of wait_for_comfyui, in ticks (the default is 120 s)
ReadyTimeout == 5
\* the clock stops being advanced by slow answers at this reading
MaxNow == 5
\* longest a readiness probe takes to answer, in ticks (it has timeout=5)
MaxProbe == 2

(* Program constants, in ticks of 0.5 s *)
POLL_INTERVAL == 1
READY_SLEEP == 4

\* Python's None, and what dict.get gives for an absent key
None == "None"
\* the default of img_obj.get("name", ...) and the second value the rewrite matches
SENTINEL == "input_image.jpg"

----------------------------------------------------------------------------
(* Data.  All values of one kind are records of one shape, with None for   *)
(* an absent key.                                                          *)

\* file names: caller-supplied names, names the service assigns, image fields
Names == {SENTINEL, "a.png", "b.png"}
NodeIds == {"1", "2"}

\* a value of the workflow mapping: a dict node, or anything else (isdict = FALSE)
NonDictNode ==
    [isdict |-> FALSE, class_type |-> None, has_inputs |-> FALSE, image |-> None]
DictNode(ct, hasInputs, img) ==
    [isdict |-> TRUE, class_type |-> ct, has_inputs |-> hasInputs, image |-> img]
AllNodes ==
    {NonDictNode}
      \cup {DictNode(ct, FALSE, None) : ct \in {"LoadImage", "KSampler", None}}
      \cup {DictNode(ct, TRUE, img) : ct \in {"LoadImage", "KSampler", None},
                                      img \in Names \cup {None}}
\* every non-empty workflow over NodeIds
AllGraphs ==
    UNION {[ids -> AllNodes] : ids \in (SUBSET NodeIds) \ {{}}}
\* a missing or empty workflow: both are falsy in `if not workflow`
NoWorkflow == [n \in {} |-> NonDictNode]

\* the workflows of the jobs the handler is run on
JobNodes ==
    {DictNode("LoadImage", TRUE, SENTINEL), DictNode("LoadImage", TRUE, "a.png"),
     DictNode("KSampler", TRUE, "a.png")}
JobGraphs == [NodeIds -> JobNodes] \cup {NoWorkflow}

\* the rewrite with the test of class_type left out
RewriteNodeAnyClass(node, filename, uploaded_name) ==
    IF node.isdict /\ node.has_inputs
          /\ (node.image = filename \/ node.image = SENTINEL)
    THEN [node EXCEPT !.image = uploaded_name]
    ELSE node

\* the rewrite binding the placeholder to the file name first and the file
\* name to the uploaded name in the other branch
RewriteNodeTwoStage(node, filename, uploaded_name) ==
    IF node.isdict /\ node.class_type = "LoadImage" /\ node.has_inputs
    THEN IF node.image = SENTINEL THEN [node EXCEPT !.image = filename]
         ELSE IF node.image = filename THEN [node EXCEPT !.image = uploaded_name]
         ELSE node
    ELSE node

\* the rewrite of every LoadImage node, whatever image it holds
RewriteNodeAnyImage(node, filename, uploaded_name) ==
    IF node.isdict /\ node.class_type = "LoadImage" /\ node.has_inputs
    THEN [node EXCEPT !.image = uploaded_name]
    ELSE node

\* the rewrite matching the file name only, not the placeholder
RewriteNodeNoSentinel(node, filename, uploaded_name) ==
    IF node.isdict /\ node.class_type = "LoadImage" /\ node.has_inputs
          /\ node.image = filename
    THEN [node EXCEPT !.image = uploaded_name]
    ELSE node

(* handler, lines 133-138: one node of the loop over workflow.values() *)
RewriteNode(node, filename, uploaded_name) ==
    IF node.isdict /\ node.class_type = "LoadImage"
    THEN LET img == IF node.has_inputs THEN node.image ELSE None
         IN  IF img = filename \/ img = SENTINEL
             THEN \* without an "inputs" key the assignment lands in the
                  \* default {} of node.get and is lost
                  IF node.has_inputs THEN [node EXCEPT !.image = uploaded_name]
                                     ELSE node
             ELSE node
    ELSE node

\* handler, lines 134-138: line 138 runs for this node and its assignment
\* stays in the workflow
Assigns(node, filename) ==
    /\ node.isdict /\ node.class_type = "LoadImage" /\ node.has_inputs
    /\ (node.image = filename \/ node.image = SENTINEL)

\* the rewrite made on a copy that is thrown away
RewriteLost(wf, filename, uploaded_name) == wf

(* handler, lines 133-138: the rewrite of the whole workflow for one image *)
Rewrite(wf, filename, uploaded_name) ==
    [n \in DOMAIN wf |-> RewriteNode(wf[n], filename, uploaded_name)]

----------------------------------------------------------------------------
(* Strings of image data are sequences over three kinds of character:     *)
(* "A" a character of the base64 alphabet, "," a comma, ":" any other      *)
(* character outside the alphabet.                                         *)

RECURSIVE FirstComma(_, _)
\* index of the first comma of s at or after i, 0 when there is none
FirstComma(s, i) ==
    IF i > Len(s) THEN 0
    ELSE IF s[i] = "," THEN i ELSE FirstComma(s, i + 1)

\* the string decoded as it was given
StripNothing(s) == s

\* upload_image, lines 55-56: image_b64.split(",", 1)[1] when it has a comma
StripDataUri(s) ==
    IF FirstComma(s, 1) > 0
    THEN SubSeq(s, FirstComma(s, 1) + 1, Len(s))
    ELSE s

\* base64.b64decode drops the characters outside the alphabet
B64Chars(s) == SelectSeq(s, LAMBDA c : c = "A")
\* ... and raises binascii.Error when what is left is not whole quads
B64Fails(s) == Len(B64Chars(s)) % 4 # 0
\* the decoded bytes, stood for by the alphabet characters they decode
B64Decode(s) == B64Chars(s)

\* upload_image, lines 55-59: the multipart request it posts
UploadRequest(image_b64, filename) ==
    [filename  |-> filename,
     data      |-> B64Decode(StripDataUri(image_b64)),
     ctype     |-> "image/jpeg",
     overwrite |-> "true"]
\* upload_image, line 57: the decode raises before anything is posted
UploadDecodeFails(image_b64) == B64Fails(StripDataUri(image_b64))

\* the image strings of the jobs the handler is run on
JobB64 ==
    { <<"A", "A", "A", "A">>,
      <<":", ",", "A", "A", "A", "A">>,
      <<"A">> }
\* an element of job["input"]["images"]; name None when the key is absent
JobImages == [name : {None, "a.png"}, image : JobB64]
MaxImages == 2
JobImageLists == UNION {[1..n -> JobImages] : n \in 0..MaxImages}

----------------------------------------------------------------------------
(* History entries.  "outputs" is a dict, which keeps the record's order:  *)
(* a sequence of node outputs, each with its "images" and "videos" lists   *)
(* (an absent list is the empty one: node_output.get(kind, [])).  A file   *)
(* reference is {filename, subfolder}; the file names of one entry are     *)
(* pairwise distinct, each naming the place it is recorded at.             *)

MaxRefs == 2
OutNodeCounts == 0..2

Ref(n, kind, j) == [filename |-> <<n, kind, j>>, subfolder |-> ""]
NodeOutput(ni, nv, n) ==
    [images |-> [j \in 1..ni |-> Ref(n, "images", j)],
     videos |-> [j \in 1..nv |-> Ref(n, "videos", j)]]
\* the entry whose n-th node has shape[n][1] images and shape[n][2] videos
HistoryOf(shape) ==
    [outputs |-> [n \in 1..Len(shape) |-> NodeOutput(shape[n][1], shape[n][2], n)]]
Shapes(maxNodes, maxRefs) ==
    UNION {[1..c -> (0..maxRefs) \X (0..maxRefs)] : c \in 0..maxNodes}
\* the entries collect_outputs is run on by itself
AllHistories == {HistoryOf(s) : s \in Shapes(2, MaxRefs)}
\* the entries the service answers the handler's jobs with
JobHistories == {HistoryOf(s) : s \in {<< >>, << <<1, 0>> >>, << <<1, 1>> >>}}
NoHistory == HistoryOf(<< >>)

PromptIds == {"p1", "p2"}
\* a response of GET /history/{prompt_id}: status and the parsed JSON body
HistoryResponses ==
    [status : {200, 500},
     body   : UNION {[ids -> JobHistories] : ids \in SUBSET PromptIds}]
NoResponse == [status |-> 0, body |-> [i \in {} |-> NoHistory]]

(* collect_outputs, lines 92-115: the place of the loops, as node index,   *)
(* list and index in the list.                                             *)
\* the loop of line 94 comes before the loop of line 106
KindOrderSwapped == <<"videos", "images">>
KindOrder == <<"images", "videos">>
FirstPlace == [n |-> 1, kind |-> KindOrder[1], j |-> 1]
RefsAt(h, p) == h.outputs[p.n][p.kind]
AtEnd(h, p) == p.n > Len(h.outputs)

RECURSIVE Settle(_, _)
\* the next reference at or after p: the exhausted first list of a node is
\* followed by its second list, the exhausted second list by the next node
Settle(h, p) ==
    IF AtEnd(h, p) THEN p
    ELSE IF p.j <= Len(RefsAt(h, p)) THEN p
    ELSE IF p.kind = KindOrder[1]
         THEN Settle(h, [n |-> p.n, kind |-> KindOrder[2], j |-> 1])
         ELSE Settle(h, [n |-> p.n + 1, kind |-> KindOrder[1], j |-> 1])
\* the loops left at the first reference they reach
AfterPlaceStops(h, p) == [n |-> Len(h.outputs) + 1, kind |-> KindOrder[1], j |-> 1]
AfterPlace(h, p) == Settle(h, [p EXCEPT !.j = p.j + 1])

\* lines 95 and 107: os.path.join(output_dir, subfolder, filename)
FilePath(ref) == <<"output", ref.subfolder, ref.filename>>
\* lines 98-103 and 110-115: the dict appended for a file that was read
Artifact(ref, kind) ==
    [filename |-> ref.filename,
     type     |-> "base64",
     format   |-> IF kind = "images" THEN "image/png" ELSE "video/mp4",
     data     |-> <<"b64", FilePath(ref)>>]

----------------------------------------------------------------------------
(* State after the module is loaded, before the __main__ block runs.       *)

NoCalls == [upload |-> 0, prompt |-> 0, history |-> 0]
NoResult == [kind |-> "none", error |-> None, outputs |-> << >>]
ErrorResult(msg) == [kind |-> "error", error |-> msg, outputs |-> << >>]
OutputsResult(outs) == [kind |-> "outputs", error |-> None, outputs |-> outs]
\* not a return value: the exception left handler
Raised(msg) == [kind |-> "raised", error |-> msg, outputs |-> << >>]
NoUpload == [filename |-> None, data |-> << >>, ctype |-> None, overwrite |-> None]
NoSent == [upload |-> NoUpload, prompt |-> NoWorkflow, at |-> 0]
NoCur == [filename |-> None, prompt_status |-> 0, prompt_id |-> None,
          resp |-> NoResponse]
NoRw == [g |-> NoWorkflow, filename |-> None, name |-> None, once |-> NoWorkflow,
         out |-> NoWorkflow, count |-> 0]

NoBound == [n \in NodeIds |-> None]
NoOutcome == [fails |-> FALSE, request |-> NoUpload]
NoUp == [prefix |-> << >>, payload |-> << >>, filename |-> None,
         bare |-> NoOutcome, prefixed |-> NoOutcome, done |-> {}]

\* the locals of one handler call
JobLocals == << workflow, rest, cur, history, k, outputs, seen, bound >>
JobLocalsInit ==
    /\ workflow = NoWorkflow
    /\ rest = << >>
    /\ cur = NoCur
    /\ history = NoHistory
    /\ k = FirstPlace
    /\ outputs = << >>
    /\ seen = << >>
    /\ bound = NoBound

Init ==
    /\ mainPc = "start"
    /\ probeOk = FALSE
    /\ pc = "none"
    /\ now = 0
    /\ start = 0
    /\ JobLocalsInit
    /\ result = NoResult
    /\ calls = NoCalls
    /\ sent = NoSent
    /\ rw = NoRw
    /\ up = NoUp

----------------------------------------------------------------------------
(* __main__, lines 150-153 *)

\* start_comfyui, lines 19-35, then line 39 of wait_for_comfyui
StartComfyui ==
    /\ mainPc = "start"
    /\ mainPc' = "wait_loop"
    /\ start' = now
    /\ UNCHANGED << probeOk, pc, now, JobLocals, result, calls, sent, rw,
                    up >>

\* subprocess.Popen raises (no interpreter, no directory): the process dies
StartComfyuiFails ==
    /\ mainPc = "start"
    /\ mainPc' = "crashed"
    /\ UNCHANGED << probeOk, pc, now, start, JobLocals, result, calls, sent,
                    rw, up >>

\* wait_for_comfyui, line 40 with the loop going on
WaitLoop(timeout) ==
    /\ mainPc = "wait_loop"
    /\ now - start < timeout
    /\ mainPc' = "probe"
    /\ UNCHANGED << probeOk, pc, now, start, JobLocals, result, calls, sent,
                    rw, up >>

\* wait_for_comfyui, lines 40 and 49: the loop ends, RuntimeError leaves
\* __main__ and runpod.serverless.start is never reached
WaitTimeout(timeout) ==
    /\ mainPc = "wait_loop"
    /\ ~(now - start < timeout)
    /\ mainPc' = "startup_failed"
    /\ UNCHANGED << probeOk, pc, now, start, JobLocals, result, calls, sent,
                    rw, up >>

\* any answer of the probe taken for readiness
ProbeSucceedsAlways(status) == TRUE

\* lines 42-45: whether the answer of the probe ends the wait
ProbeSucceeds(status) == status = 200

\* wait_for_comfyui, lines 42-45 and line 153: the probe answers after d
\* ticks with a status that ends the wait; runpod starts serving
ProbeReady ==
    /\ mainPc = "probe"
    /\ \E d \in 0..MaxProbe, status \in {200, 503} :
          /\ ProbeSucceeds(status)
          /\ now' = now + d
          /\ probeOk' = (status = 200)
    /\ mainPc' = "serve"
    /\ pc' = "idle"
    /\ UNCHANGED << start, JobLocals, result, calls, sent, rw, up >>

\* the exception of requests.get not caught: it ends the wait
ProbeRetryRaises ==
    /\ mainPc = "probe"
    /\ \E d \in 0..MaxProbe, status \in {200, 503, 0} :
          /\ ~ProbeSucceeds(status)
          /\ now' = now + d + (IF status = 0 THEN 0 ELSE READY_SLEEP)
          /\ mainPc' = IF status = 0 THEN "startup_failed" ELSE "wait_loop"
    /\ UNCHANGED << probeOk, pc, start, JobLocals, result, calls, sent, rw,
                    up >>

\* wait_for_comfyui, lines 42-48: another status, or requests.get raises
\* (refused connection, the 5 s timeout); time.sleep(2), back to line 40
ProbeRetry ==
    /\ mainPc = "probe"
    /\ \E d \in 0..MaxProbe, status \in {200, 503, 0} :
          /\ ~ProbeSucceeds(status)
          /\ now' = now + d + READY_SLEEP
    /\ mainPc' = "wait_loop"
    /\ UNCHANGED << probeOk, pc, start, JobLocals, result, calls, sent, rw,
                    up >>

----------------------------------------------------------------------------
(* handler(job), lines 120-147.  runpod calls it with one job at a time.   *)

Startup == << mainPc, probeOk >>

\* the handler without the test of line 123
IsMissingNever(wf) == FALSE

\* line 123: `not workflow`, true of None and of the empty dict
IsMissing(wf) == DOMAIN wf = {}

\* lines 121-124: the job has no workflow
HandlerMissingWorkflow ==
    /\ pc = "idle"
    /\ \E wf \in JobGraphs, imgs \in JobImageLists :
          IsMissing(wf)
    /\ result' = ErrorResult("Missing 'workflow' in input")
    /\ pc' = "returned"
    /\ now' = 0
    /\ calls' = NoCalls
    /\ sent' = NoSent
    /\ UNCHANGED << Startup, start, JobLocals, rw, up >>

\* lines 121-127: the job has a workflow; the loop over images begins
HandlerEnter ==
    /\ pc = "idle"
    /\ \E wf \in JobGraphs, imgs \in JobImageLists :
          /\ ~IsMissing(wf)
          /\ workflow' = wf
          /\ rest' = imgs
    /\ pc' = "images"
    /\ now' = 0
    /\ calls' = NoCalls
    /\ sent' = NoSent
    /\ result' = NoResult
    /\ UNCHANGED << Startup, start, cur, history, k, outputs, seen, bound,
                    rw, up >>

\* line 129: img_obj.get("name", "input_image.jpg")
FileNameOf(img_obj) == IF img_obj.name = None THEN SENTINEL ELSE img_obj.name

\* raise_for_status left out
RaisesForStatusNever(status) == FALSE

\* requests' Response.raise_for_status: HTTPError for a 4xx or 5xx status
RaisesForStatus(status) == status >= 400
\* the statuses the service answers a POST with; 0 stands for no answer at
\* all (requests.post raises ConnectionError)
PostStatuses == {200, 400, 500, 0}

\* lines 128-131 and 55-60: the next image is decoded and posted
UploadStart ==
    /\ pc = "images"
    /\ rest # << >>
    /\ ~UploadDecodeFails(Head(rest).image)
    /\ cur' = [cur EXCEPT !.filename = FileNameOf(Head(rest))]
    /\ sent' = [sent EXCEPT
                   !.upload = UploadRequest(Head(rest).image, FileNameOf(Head(rest))),
                   !.at = now]
    /\ calls' = [calls EXCEPT !.upload = @ + 1]
    /\ rest' = Tail(rest)
    /\ pc' = "upload_wait"
    /\ UNCHANGED << Startup, now, start, workflow, history, k, outputs,
                    seen, bound, result, rw, up >>

\* lines 128-131 and 55-57: base64.b64decode raises inside upload_image,
\* which line 131 calls before the try of line 140: the exception leaves
\* handler
UploadBadData ==
    /\ pc = "images"
    /\ rest # << >>
    /\ UploadDecodeFails(Head(rest).image)
    /\ result' = Raised("binascii.Error")
    /\ pc' = "raised"
    /\ UNCHANGED << Startup, now, start, JobLocals, calls, sent, rw, up >>

\* lines 60-62 and 133-138: the service answers 2xx with the name it gave
\* the file; the workflow is rewritten for this image
UploadOk ==
    /\ pc = "upload_wait"
    /\ \E status \in PostStatuses, uploaded_name \in Names :
          /\ status # 0 /\ ~RaisesForStatus(status)
          /\ workflow' = Rewrite(workflow, cur.filename, uploaded_name)
          /\ bound' = [n \in NodeIds |->
                         IF n \in DOMAIN workflow /\ Assigns(workflow[n], cur.filename)
                         THEN uploaded_name ELSE bound[n]]
    /\ sent' = NoSent
    /\ pc' = "images"
    /\ UNCHANGED << Startup, now, start, rest, cur, history, k, outputs,
                    seen, result, calls, rw, up >>

\* lines 60-61: requests.post raises, or raise_for_status does; no try
\* encloses line 131, the exception leaves handler
UploadRejected ==
    /\ pc = "upload_wait"
    /\ \E status \in PostStatuses : status = 0 \/ RaisesForStatus(status)
    /\ result' = Raised("upload: HTTPError")
    /\ sent' = NoSent
    /\ pc' = "raised"
    /\ UNCHANGED << Startup, now, start, JobLocals, calls, rw, up >>

\* lines 140-141 and 67-69: after the last image the workflow is posted
Submit ==
    /\ pc = "images"
    /\ rest = << >>
    /\ sent' = [sent EXCEPT !.prompt = workflow, !.at = now]
    /\ calls' = [calls EXCEPT !.prompt = @ + 1]
    /\ pc' = "prompt_wait"
    /\ UNCHANGED << Startup, now, start, JobLocals, result, rw, up >>

\* lines 70-71, 142-143 and 76: an answer raise_for_status lets through,
\* with a prompt_id; wait_for_result begins
PromptOk ==
    /\ pc = "prompt_wait"
    /\ \E status \in PostStatuses, id \in PromptIds :
          /\ status # 0 /\ ~RaisesForStatus(status)
          /\ cur' = [cur EXCEPT !.prompt_id = id, !.prompt_status = status]
    /\ start' = now
    /\ sent' = NoSent
    /\ pc' = "poll"
    /\ UNCHANGED << Startup, now, workflow, rest, history, k, outputs, seen,
                    bound, result, calls, rw, up >>

\* lines 69-70 and 146-147: requests.post raises, or raise_for_status does;
\* the except of line 146 returns the error
PromptRejected ==
    /\ pc = "prompt_wait"
    /\ \E status \in PostStatuses :
          /\ status = 0 \/ RaisesForStatus(status)
          /\ cur' = [cur EXCEPT !.prompt_status = status]
    /\ result' = ErrorResult("prompt: HTTPError")
    /\ sent' = NoSent
    /\ pc' = "returned"
    /\ UNCHANGED << Startup, now, start, workflow, rest, history, k,
                    outputs, seen, bound, calls, rw, up >>

----------------------------------------------------------------------------
(* wait_for_result, lines 74-84, called at line 143 *)

\* line 77 with the loop going on, line 78: the history is asked for
PollLoop(timeout) ==
    /\ pc = "poll"
    /\ now - start < timeout
    /\ calls' = [calls EXCEPT !.history = @ + 1]
    /\ sent' = [sent EXCEPT !.at = now]
    /\ pc' = "history_wait"
    /\ UNCHANGED << Startup, now, start, JobLocals, result, rw, up >>

\* the workflow queued again when the poll loop ends
PollTimeoutResubmits(timeout) ==
    /\ pc = "poll"
    /\ ~(now - start < timeout)
    /\ sent' = [sent EXCEPT !.prompt = workflow, !.at = now]
    /\ calls' = [calls EXCEPT !.prompt = @ + 1]
    /\ pc' = "prompt_wait"
    /\ UNCHANGED << Startup, now, start, JobLocals, result, rw, up >>

\* the loop given up one poll interval before the timeout
PollTimeoutEarly(timeout) ==
    /\ pc = "poll"
    /\ ~(now - start + POLL_INTERVAL < timeout)
    /\ result' = ErrorResult("timed out")
    /\ pc' = "returned"
    /\ UNCHANGED << Startup, now, start, JobLocals, calls, sent, rw, up >>

\* lines 77, 84 and 146-147: the loop ends, TimeoutError is raised and the
\* except of handler returns it
PollTimeout(timeout) ==
    /\ pc = "poll"
    /\ ~(now - start < timeout)
    /\ result' = ErrorResult("timed out")
    /\ pc' = "returned"
    /\ UNCHANGED << Startup, now, start, JobLocals, calls, sent, rw, up >>

\* line 78: the service answers
HistoryAnswer ==
    /\ pc = "history_wait"
    /\ \E r \in HistoryResponses : cur' = [cur EXCEPT !.resp = r]
    /\ sent' = NoSent
    /\ pc' = "history_got"
    /\ UNCHANGED << Startup, now, start, workflow, rest, history, k,
                    outputs, seen, bound, result, calls, rw, up >>

\* lines 78 and 146-147: requests.get raises (the connection is refused or
\* breaks); wait_for_result has no try, the except of handler returns it
HistoryUnreachable ==
    /\ pc = "history_wait"
    /\ result' = ErrorResult("history: ConnectionError")
    /\ sent' = NoSent
    /\ pc' = "returned"
    /\ UNCHANGED << Startup, now, start, JobLocals, calls, rw, up >>

\* the test of the status code (line 79) left out
EntryReadyAnyStatus(r, prompt_id) == prompt_id \in DOMAIN r.body

\* lines 79-81: the response carries the entry of prompt_id
EntryReady(r, prompt_id) == r.status = 200 /\ prompt_id \in DOMAIN r.body
\* line 82: the value wait_for_result returns
EntryOf(r, prompt_id) == r.body[prompt_id]

\* lines 79-82 and 144, 89-92: wait_for_result returns the entry;
\* collect_outputs begins
HistoryFound ==
    /\ pc = "history_got"
    /\ EntryReady(cur.resp, cur.prompt_id)
    /\ history' = EntryOf(cur.resp, cur.prompt_id)
    /\ k' = Settle(history', FirstPlace)
    /\ outputs' = << >>
    /\ seen' = << >>
    /\ cur' = [cur EXCEPT !.resp = NoResponse]
    /\ pc' = "collect"
    /\ UNCHANGED << Startup, now, start, workflow, rest, bound, result,
                    calls, sent, rw, up >>

\* lines 79-83: no entry yet; time.sleep(POLL_INTERVAL), back to line 77
HistoryPending ==
    /\ pc = "history_got"
    /\ ~EntryReady(cur.resp, cur.prompt_id)
    /\ now' = now + POLL_INTERVAL
    /\ cur' = [cur EXCEPT !.resp = NoResponse]
    /\ pc' = "poll"
    /\ UNCHANGED << Startup, start, workflow, rest, history, k, outputs,
                    seen, bound, result, calls, sent, rw, up >>

\* time passes while a request waits for its answer: requests.post and
\* requests.get are called without a timeout (lines 60, 69, 78)
Tick ==
    /\ pc \in {"upload_wait", "prompt_wait", "history_wait"}
    /\ now < MaxNow
    /\ now' = now + 1
    /\ UNCHANGED << Startup, pc, start, JobLocals, result, calls, sent, rw,
                    up >>

----------------------------------------------------------------------------
(* collect_outputs, lines 87-117, called at line 144 *)

\* lines 96 and 108: os.path.exists answers False, the reference is skipped
CollectMissing ==
    /\ pc = "collect"
    /\ ~AtEnd(history, k)
    /\ seen' = Append(seen, <<FilePath(RefsAt(history, k)[k.j]), FALSE>>)
    /\ k' = AfterPlace(history, k)
    /\ UNCHANGED << Startup, bound, pc, now, start, workflow, rest, cur, history,
                    outputs, result, calls, sent, rw, up >>

\* lines 96-97 and 108-109: os.path.exists answers True
CollectFound ==
    /\ pc = "collect"
    /\ ~AtEnd(history, k)
    /\ seen' = Append(seen, <<FilePath(RefsAt(history, k)[k.j]), TRUE>>)
    /\ pc' = "collect_read"
    /\ UNCHANGED << Startup, bound, now, start, workflow, rest, cur, history, k,
                    outputs, result, calls, sent, rw, up >>

\* lines 97-103 and 109-115: the file is opened, read and appended
CollectRead ==
    /\ pc = "collect_read"
    /\ outputs' = Append(outputs, Artifact(RefsAt(history, k)[k.j], k.kind))
    /\ k' = AfterPlace(history, k)
    /\ pc' = "collect"
    /\ UNCHANGED << Startup, now, start, workflow, rest, cur, history, seen,
                    bound, result, calls, sent, rw, up >>

\* lines 97, 109 and 146-147: open or read raises OSError (the service
\* removed the file after the check, or it is a directory, or unreadable);
\* collect_outputs has no try, the except of handler returns the error
CollectReadFails ==
    /\ pc = "collect_read"
    /\ result' = ErrorResult("OSError")
    /\ pc' = "returned"
    /\ UNCHANGED << Startup, now, start, JobLocals, calls, sent, rw, up >>

\* an empty list of artifacts returned as an error
CollectDoneEmptyIsError ==
    /\ pc = "collect"
    /\ AtEnd(history, k)
    /\ result' = IF outputs = << >> THEN ErrorResult("no outputs")
                                    ELSE OutputsResult(outputs)
    /\ pc' = "returned"
    /\ UNCHANGED << Startup, now, start, JobLocals, calls, sent, rw, up >>

\* lines 117 and 145: the loops are over
CollectDone ==
    /\ pc = "collect"
    /\ AtEnd(history, k)
    /\ result' = OutputsResult(outputs)
    /\ pc' = "returned"
    /\ UNCHANGED << Startup, now, start, JobLocals, calls, sent, rw, up >>

\* runpod takes what the call gave (it catches an exception of the handler
\* and reports it) and is ready for the next job; the locals are gone
JobDone ==
    /\ pc \in {"returned", "raised"}
    /\ pc' = "idle"
    /\ now' = 0
    /\ start' = 0
    /\ workflow' = NoWorkflow
    /\ rest' = << >>
    /\ cur' = NoCur
    /\ history' = NoHistory
    /\ k' = FirstPlace
    /\ outputs' = << >>
    /\ seen' = << >>
    /\ bound' = NoBound
    /\ result' = NoResult
    /\ calls' = NoCalls
    /\ sent' = NoSent
    /\ UNCHANGED << Startup, rw, up >>

----------------------------------------------------------------------------
Main ==
    \/ StartComfyui
    \/ StartComfyuiFails
    \/ WaitLoop(ReadyTimeout)
    \/ WaitTimeout(ReadyTimeout)
    \/ ProbeReady
    \/ ProbeRetry

Handler ==
    \/ HandlerMissingWorkflow
    \/ HandlerEnter
    \/ UploadStart
    \/ UploadBadData
    \/ UploadOk
    \/ UploadRejected
    \/ Submit
    \/ PromptOk
    \/ PromptRejected
    \/ PollLoop(JobTimeout)
    \/ PollTimeout(JobTimeout)
    \/ HistoryAnswer
    \/ HistoryUnreachable
    \/ HistoryFound
    \/ HistoryPending
    \/ Tick

Collect ==
    \/ CollectMissing
    \/ CollectFound
    \/ CollectRead
    \/ CollectReadFails
    \/ CollectDone

Next == Main \/ Handler \/ Collect \/ JobDone

Spec == Init /\ [][Next]_vars

----------------------------------------------------------------------------
(* collect_outputs run by itself, from line 144 on, on every history entry *)
(* of AllHistories.                                                        *)

InitCollect ==
    /\ mainPc = "serve"
    /\ probeOk = TRUE
    /\ pc = "collect"
    /\ now = 0
    /\ start = 0
    /\ workflow = NoWorkflow
    /\ rest = << >>
    /\ cur = NoCur
    /\ history \in AllHistories
    /\ k = Settle(history, FirstPlace)
    /\ outputs = << >>
    /\ seen = << >>
    /\ bound = NoBound
    /\ result = NoResult
    /\ calls = NoCalls
    /\ sent = NoSent
    /\ rw = NoRw
    /\ up = NoUp

SpecCollect == InitCollect /\ [][Collect]_vars

----------------------------------------------------------------------------
(* The rewrite of lines 133-138 run by itself, once and then once more     *)
(* with the same arguments, on every workflow of AllGraphs.                *)

InitRewrite ==
    /\ mainPc = "serve"
    /\ probeOk = TRUE
    /\ pc = "idle"
    /\ now = 0
    /\ start = 0
    /\ JobLocalsInit
    /\ result = NoResult
    /\ calls = NoCalls
    /\ sent = NoSent
    /\ up = NoUp
    /\ \E g \in AllGraphs, filename \in Names, name \in Names :
          rw = [g |-> g, filename |-> filename, name |-> name, once |-> g,
                out |-> g, count |-> 0]

RewriteApply ==
    /\ rw.count < 2
    /\ rw' = [rw EXCEPT
                 !.out = Rewrite(rw.out, rw.filename, rw.name),
                 !.once = IF rw.count = 0
                          THEN Rewrite(rw.out, rw.filename, rw.name) ELSE @,
                 !.count = @ + 1]
    /\ UNCHANGED << Startup, pc, now, start, JobLocals, result, calls,
                    sent, up >>

SpecRewrite == InitRewrite /\ [][RewriteApply]_vars

-----------------------------------------------------------------------------
(* upload_image alone, called with a payload and with the same payload     *)
(* behind a data-URI prefix.  "A" stands for a character of the base64     *)
(* alphabet and ":" for one outside it; a data-URI prefix holds no comma   *)
(* and neither does a base64 payload.                                      *)

MaxPrefix == 2
MaxPayload == 5
StringsUpTo(chars, n) == UNION {[1..m -> chars] : m \in 0..n}
UploadPrefixes == StringsUpTo({"A", ":"}, MaxPrefix)
UploadPayloads == StringsUpTo({"A", ":"}, MaxPayload)

\* upload_image, lines 55-60: the decode raises, or the request is posted
Outcome(image_b64, filename) ==
    [fails   |-> UploadDecodeFails(image_b64),
     request |-> IF UploadDecodeFails(image_b64) THEN NoUpload
                 ELSE UploadRequest(image_b64, filename)]

InitUpload ==
    /\ mainPc = "serve"
    /\ probeOk = TRUE
    /\ pc = "idle"
    /\ now = 0
    /\ start = 0
    /\ JobLocalsInit
    /\ result = NoResult
    /\ calls = NoCalls
    /\ sent = NoSent
    /\ rw = NoRw
    /\ \E prefix \in UploadPrefixes, payload \in UploadPayloads,
          filename \in {SENTINEL, "a.png"} :
          up = [NoUp EXCEPT !.prefix = prefix, !.payload = payload,
                            !.filename = filename]

\* upload_image(payload, filename)
UploadBare ==
    /\ "bare" \notin up.done
    /\ up' = [up EXCEPT !.bare = Outcome(up.payload, up.filename),
                        !.done = @ \cup {"bare"}]
    /\ UNCHANGED << Startup, pc, now, start, JobLocals, result, calls,
                    sent, rw >>

\* upload_image(prefix + "," + payload, filename)
UploadPrefixed ==
    /\ "prefixed" \notin up.done
    /\ up' = [up EXCEPT
                 !.prefixed = Outcome(up.prefix \o <<",">> \o up.payload,
                                      up.filename),
                 !.done = @ \cup {"prefixed"}]
    /\ UNCHANGED << Startup, pc, now, start, JobLocals, result, calls,
                    sent, rw >>

Upload == UploadBare \/ UploadPrefixed

SpecUpload == InitUpload /\ [][Upload]_vars

----------------------------------------------------------------------------
(* The claims *)

Waiting == pc \in {"upload_wait", "prompt_wait", "history_wait"}
Collecting == pc \in {"collect", "collect_read"}

\* C1: whatever fails while a job is handled, handler returns {error} or
\* {outputs}; no exception leaves it.
C1_NoExceptionEscapes ==
    /\ pc # "raised"
    /\ pc = "returned" => result.kind \in {"error", "outputs"}

\* C2: a job without a workflow gets an error result, and no request at all
\* (upload, submission, history) is made for it.
C2_MissingWorkflowNoNetwork ==
    (pc \notin {"none", "idle"} /\ DOMAIN workflow = {}) =>
        /\ pc = "returned"
        /\ result.kind = "error"
        /\ calls = NoCalls
        /\ sent = NoSent
C2_Witness ==
    pc = "returned" /\ DOMAIN workflow = {} /\ result.kind = "error"

C4_ReturnsOnFirstReadyPoll ==
    [][ /\ (pc = "history_got" /\ cur.resp.status = 200
               /\ cur.prompt_id \in DOMAIN cur.resp.body)
            => /\ pc' = "collect"
               /\ history' = cur.resp.body[cur.prompt_id]
               /\ now' = now
               /\ calls' = calls
        /\ (pc = "history_got" /\ ~(cur.resp.status = 200
               /\ cur.prompt_id \in DOMAIN cur.resp.body))
            => ~Collecting'
        /\ Collecting
            => /\ pc' \in {"collect", "collect_read", "returned"}
               /\ now' = now
               /\ calls' = calls ]_vars
C4_Witness ==
    /\ pc = "collect" /\ calls.history = 2
    /\ history = HistoryOf(<< <<1, 1>> >>)

\* C5: when wait_for_result fails with the timeout, no more than timeout
\* plus one poll interval has passed since it began.
C5_TimeoutWithinOneInterval ==
    (pc = "returned" /\ result.error = "timed out") =>
        now - start <= JobTimeout + POLL_INTERVAL

\* C6: no request of the handler stays without an answer for longer than
\* the job timeout (with the slack of one poll interval).
C6_NoRequestHangsPastTimeout ==
    Waiting => now - sent.at <= JobTimeout + POLL_INTERVAL

\* C7: a job is handled only while serving, serving begins only after a
\* probe answered 200, the order is start, wait, serve, and a wait that
\* timed out leaves the process failed for ever, no job ever handled.
C7_NoJobBeforeReady ==
    /\ [](/\ pc # "none" => mainPc = "serve"
          /\ mainPc = "serve" => probeOk
          /\ mainPc = "startup_failed" =>
                (pc = "none" /\ ~probeOk /\ now - start >= ReadyTimeout))
    /\ [][ /\ mainPc = "start" => mainPc' \in {"wait_loop", "crashed"}
           /\ mainPc' = "serve" => mainPc \in {"probe", "serve"}
           /\ mainPc = "startup_failed" => mainPc' = "startup_failed" ]_vars
C7_Witness ==
    pc = "images" /\ probeOk /\ mainPc = "serve"

\* C8: the rewrite leaves the set of node identifiers and every node that
\* is not a LoadImage node as they were.
C8_OnlyLoadImageNodesChange ==
    /\ DOMAIN rw.out = DOMAIN rw.g
    /\ \A n \in DOMAIN rw.g :
          ~(rw.g[n].isdict /\ rw.g[n].class_type = "LoadImage") =>
              rw.out[n] = rw.g[n]
C8_Witness ==
    /\ rw.count = 1
    /\ rw.out # rw.g
    /\ \E n \in DOMAIN rw.g :
          /\ rw.g[n].class_type = "KSampler"
          /\ rw.g[n].has_inputs /\ rw.g[n].image = rw.filename

\* C9: the rewrite applied twice with the same file name and assigned name
\* gives the workflow it gives applied once.
C9_RewriteIdempotent ==
    rw.count = 2 => rw.out = rw.once
C9_Witness ==
    rw.count = 2 /\ rw.once # rw.g /\ rw.filename # rw.name

\* a file name of AllHistories is the place <<node, list, index>> it is
\* recorded at; a is recorded before b
RecordedBefore(a, b) ==
    \/ a[1] < b[1]
    \/ a[1] = b[1] /\ a[2] = "images" /\ b[2] = "videos"
    \/ a[1] = b[1] /\ a[2] = b[2] /\ a[3] < b[3]

\* C10: the artifacts come in the order of the record: node after node, and
\* within a node the images in their order, then the videos in theirs.
C10_OutputsInRecordOrder ==
    /\ \A p, q \in 1..Len(outputs) :
          p < q => RecordedBefore(outputs[p].filename, outputs[q].filename)
    /\ pc = "returned" /\ result.kind = "outputs" => result.outputs = outputs
C10_Witness ==
    /\ pc = "returned" /\ result.kind = "outputs"
    /\ \E p, q \in 1..Len(result.outputs) :
          /\ result.outputs[p].filename = <<1, "videos", 2>>
          /\ result.outputs[q].filename = <<2, "images", 1>>
    /\ Len(result.outputs) >= 6

RECURSIVE RefCount(_, _)
\* the number of image and video references of the first n nodes of h
RefCount(h, n) ==
    IF n = 0 THEN 0
    ELSE RefCount(h, n - 1) + Len(h.outputs[n].images) + Len(h.outputs[n].videos)
\* the paths os.path.exists has answered True for, in the order asked
SeenPresent == SelectSeq(seen, LAMBDA e : e[2])
AllSeenAbsent == \A i \in 1..Len(seen) : ~seen[i][2]

\* C11: a referenced file that os.path.exists reports absent is never the
\* cause of an error: it is left out and the loops go on through every
\* reference, so the result holds exactly the files reported present.
C11_AbsentFileIsSkipped ==
    /\ (pc = "returned" /\ result.kind = "error") =>
          (seen # << >> /\ seen[Len(seen)][2])
    /\ pc = "collect" =>
          /\ Len(outputs) = Len(SeenPresent)
          /\ \A i \in 1..Len(outputs) :
                outputs[i].data = <<"b64", SeenPresent[i][1]>>
    /\ (pc = "returned" /\ result.kind = "outputs") =>
          /\ Len(seen) = RefCount(history, Len(history.outputs))
          /\ Len(result.outputs) = Len(SeenPresent)
          /\ \A i \in 1..Len(result.outputs) :
                result.outputs[i].data = <<"b64", SeenPresent[i][1]>>
C11_Witness ==
    /\ pc = "returned" /\ result.kind = "outputs"
    /\ Len(seen) >= 3
    /\ ~seen[1][2] /\ seen[2][2] /\ ~seen[3][2]
    /\ Len(result.outputs) >= 2

\* C12: once collection has begun, no failure to read a file makes the job
\* fail: the handler returns {outputs}, not {error}.
C12_ReadErrorNeverFailsJob ==
    (pc = "returned" /\ seen # << >>) => result.kind = "outputs"

\* C13: the images are taken in the order supplied; an upload is begun only
\* when the rewrite for the image before it is done; the answer of an
\* upload rewrites the workflow for that image; the workflow is posted only
\* when no image is left, as it is after all rewrites, and is not rewritten
\* afterwards.
C13_UploadRewriteThenSubmit ==
    [][ /\ pc' = "upload_wait" => pc \in {"images", "upload_wait"}
        /\ (pc = "images" /\ pc' = "upload_wait") =>
              /\ rest # << >> /\ rest' = Tail(rest)
              /\ cur'.filename = FileNameOf(Head(rest))
              /\ sent'.upload.filename = FileNameOf(Head(rest))
              /\ workflow' = workflow
        /\ (pc = "upload_wait" /\ pc' = "images") =>
              /\ rest' = rest
              /\ \A n \in DOMAIN workflow :
                    workflow'[n] =
                      IF Assigns(workflow[n], cur.filename)
                      THEN [workflow[n] EXCEPT !.image = bound'[n]]
                      ELSE workflow[n]
        /\ pc' = "prompt_wait" =>
              /\ rest = << >> /\ workflow' = workflow
              /\ pc = "images" => sent'.prompt = workflow
              /\ pc = "prompt_wait" => sent'.prompt = sent.prompt
        /\ (pc \in {"prompt_wait", "poll", "history_wait", "history_got",
                     "collect", "collect_read"}) =>
              workflow' = workflow ]_vars
C13_Witness ==
    /\ pc = "prompt_wait" /\ calls.upload = 2
    /\ sent.prompt = workflow
    /\ workflow["1"].image = "b.png" /\ workflow["2"].image = "a.png"

\* C14: upload_image given prefix, comma, payload decodes the same bytes
\* and posts the same filename and form fields as upload_image given the
\* payload alone, or fails to decode exactly when the payload alone does.
C14_DataUriUploadsAsBare ==
    up.done = {"bare", "prefixed"} => up.prefixed = up.bare
C14_Witness ==
    /\ up.done = {"bare", "prefixed"}
    /\ up.prefix = <<"A", ":">>
    /\ ~up.bare.fails
    /\ up.prefixed.request.data = <<"A", "A", "A", "A">>
    /\ up.prefixed.request.filename = "a.png"

\* C15: one rewrite sets the image of a LoadImage node to the assigned name
\* exactly when the image it holds is the file name or "input_image.jpg",
\* and leaves the node as it is otherwise; with no such node the workflow
\* comes out as it went in.
C15_RewrittenExactlyOnMatch ==
    rw.count >= 1 =>
      /\ \A n \in DOMAIN rw.g :
            (rw.g[n].isdict /\ rw.g[n].class_type = "LoadImage") =>
              IF rw.g[n].has_inputs /\ rw.g[n].image \in {rw.filename, SENTINEL}
              THEN rw.once[n] = [rw.g[n] EXCEPT !.image = rw.name]
              ELSE rw.once[n] = rw.g[n]
      /\ (\A n \in DOMAIN rw.g :
              ~(rw.g[n].has_inputs /\ rw.g[n].image \in {rw.filename, SENTINEL}))
            => rw.once = rw.g
C15_Witness ==
    /\ rw.count = 1
    /\ rw.filename = "a.png" /\ rw.name = "b.png"
    /\ rw.g = [n \in NodeIds |->
                 IF n = "1" THEN DictNode("LoadImage", TRUE, SENTINEL)
                            ELSE DictNode("LoadImage", TRUE, "b.png")]
    /\ rw.once["1"].image = "b.png" /\ rw.once["2"] = rw.g["2"]

C17_ProbeFailureIsRetried ==
    [][ /\ mainPc = "probe" =>
              \/ mainPc' = "serve" /\ probeOk'
              \/ mainPc' = "wait_loop" /\ now' >= now + READY_SLEEP
        /\ (mainPc = "wait_loop" /\ now - start < ReadyTimeout) =>
              mainPc' = "probe"
        /\ (mainPc # "startup_failed" /\ mainPc' = "startup_failed") =>
              mainPc = "wait_loop" /\ now - start >= ReadyTimeout ]_vars
C17_Witness ==
    mainPc = "probe" /\ now - start >= READY_SLEEP /\ ~probeOk

\* C18 as stated: a node that line 138 has bound to the name of one
\* uploaded image is not changed by the rewrite for a later image of the
\* job.
C18_BoundNodeNeverRewrittenAgain ==
    [][ (pc = "upload_wait" /\ pc' = "images") =>
          \A n \in DOMAIN workflow :
             bound[n] # None => workflow'[n] = workflow[n] ]_vars

\* C18: a bound node holds the name it was bound to, and the rewrite for a
\* later image changes it only when that name is the later image's file
\* name or "input_image.jpg".
C18_BoundNodeRewrittenOnlyOnNameClash ==
    /\ [](\A n \in DOMAIN workflow :
             bound[n] # None => workflow[n].image = bound[n])
    /\ [][ (pc = "upload_wait" /\ pc' = "images") =>
              \A n \in DOMAIN workflow :
                 (bound[n] # None /\ workflow'[n] # workflow[n]) =>
                    bound[n] \in {cur.filename, SENTINEL} ]_vars
C18_Witness ==
    /\ pc = "prompt_wait" /\ calls.upload = 2
    /\ bound["1"] = "b.png" /\ bound["2"] = SENTINEL
    /\ workflow["1"].image = "b.png"

\* C19: in one call of handler POST /prompt is sent at most once, and not
\* at all when the workflow is missing or an upload has failed.
C19_SubmitsAtMostOnce ==
    /\ calls.prompt <= 1
    /\ pc \in {"images", "upload_wait", "raised"} => calls.prompt = 0
    /\ result = ErrorResult("Missing 'workflow' in input") => calls.prompt = 0
C19_Witness ==
    /\ pc = "returned" /\ result = ErrorResult("timed out")
    /\ calls.prompt = 1 /\ calls.history >= 2

\* C20: with no reference in the history entry, or with every referenced
\* file absent, the result is {outputs: []} and not an error; the artifacts
\* are never more than the image and video references of the entry.
C20_NothingFoundIsEmptySuccess ==
    /\ (pc = "returned" /\ AllSeenAbsent) => result = OutputsResult(<< >>)
    /\ Len(outputs) <= RefCount(history, Len(history.outputs))
    /\ Len(result.outputs) <= RefCount(history, Len(history.outputs))
C20_Witness ==
    /\ pc = "returned" /\ AllSeenAbsent /\ Len(seen) >= 3
    /\ Len(seen) = RefCount(history, Len(history.outputs))
    /\ result = OutputsResult(<< >>)
====
